---- MODULE Spec2Model ----
(***************************************************************************)
(* The Hetzner Cloud driver of Molecule (molecule/driver/hetznercloud.py). *)
(*                                                                         *)
(* The driver is an adapter: it answers lookups against the instance       *)
(* config file the provisioner writes, hands out the ssh options, and runs *)
(* the sanity checks once per run.  Python dicts are functions from keys   *)
(* (strings) to values, lists are sequences, a raised exception is the     *)
(* "raised" field of a call's outcome.                                     *)
(***************************************************************************)
EXTENDS Integers, Sequences, FiniteSets, TLC

VARIABLES
    _name,              \* HetznerCloud._name
    driver_options,     \* config['driver']['ssh_connection_options'] of molecule.yml
    instance_config,    \* the instance config file: [exists, items]
    state,              \* self._config.state: [sanity_checked]
    hcloud_importable,  \* whether "import hcloud" succeeds
    environ,            \* the names defined in os.environ
    log,                \* the lines written with log.info
    exit_msg,           \* "" while the process runs, else the message it exited with
    held_options,       \* the first list default_ssh_connection_options returned, kept by the caller
    seen_missing,       \* history: the names a lookup has found missing so far
    last                \* the last event of the run: [op, arg, raised, value]

vars == << _name, driver_options, instance_config, state,
           hcloud_importable, environ, log, exit_msg, held_options,
           seen_missing, last >>

----------------------------------------------------------------------------
(* Bounds of the model. *)

\* The longest instance config file the provisioner writes.
MaxEntries == 2

\* The instance names looked up, and the names the provisioner writes.
InstanceNames == {"i1", "i2"}

\* The names the name setter is given.
DriverNames == {"hetznercloud", "custom"}

\* The ssh_connection_options of molecule.yml: unset, or a list of the user's.
DriverOptionChoices ==
    { << >>,
      << "-o ControlPath=~/.ansible/cp/%r@%h-%p", "-o ForwardAgent=yes" >> }

\* The entries the provisioner writes for an instance: the four required
\* keys, and for the second one a further key.
EntriesFor(n) ==
    { [instance |-> n, user |-> "root", address |-> "1.2.3.4", port |-> 22],
      [instance |-> n, user |-> "admin", address |-> "10.0.0.7", port |-> 2222,
       identity_file |-> "~/.ssh/id_rsa"] }

EntryPool == UNION { EntriesFor(n) : n \in InstanceNames }

----------------------------------------------------------------------------
(* Values. *)

\* The empty dict, {}.
EmptyDict == [k \in {} |-> ""]

\* What a call that returns nothing (or raises) leaves as its value.
None == << >>

NoException == ""

Outcome(raised, value) == [raised |-> raised, value |-> value]

Returned(value) == Outcome(NoException, value)

Raised(exception) == Outcome(exception, None)

Running == exit_msg = ""

----------------------------------------------------------------------------
(* Collaborators of the driver that live outside hetznercloud.py. *)

\* util.safe_load_file: the parsed content of the file; opening a file that
\* is not on disk raises IOError.
safe_load_file(file) ==
    IF file.exists THEN Returned(file.items) ELSE Raised("IOError")

\* util.merge_dicts(a, b): the values of b merged into a.
merge_dicts(a, b) ==
    [k \in (DOMAIN a) \cup (DOMAIN b) |-> IF k \in DOMAIN b THEN b[k] ELSE a[k]]

\* str.join
RECURSIVE join(_, _)
join(sep, list) ==
    IF list = << >> THEN ""
    ELSE IF Len(list) = 1 THEN list[1]
    ELSE list[1] \o sep \o join(sep, Tail(list))

\* base.Base.instance_config: the path of the instance config file.
instance_config_path == "instance_config.yml"

----------------------------------------------------------------------------
(* The driver. *)

get_ssh_connection_options ==
    << "-o UserKnownHostsFile=/dev/null",
       "-o ControlMaster=auto",
       "-o ControlPersist=60s",
       "-o IdentitiesOnly=no",
       "-o StrictHostKeyChecking=no" >>

\* A property that hands out one shared list instead of a new one per call.
default_ssh_connection_options_shared ==
    IF held_options # << >> THEN held_options ELSE get_ssh_connection_options

default_ssh_connection_options == get_ssh_connection_options

\* base.Base.ssh_connection_options: the list of molecule.yml when it is
\* set (lists are not merged), else the driver's defaults.
ssh_connection_options ==
    IF driver_options # << >> THEN driver_options
    ELSE default_ssh_connection_options

login_cmd_template ==
    "ssh {address} -l {user} -p {port} " \o join(" ", ssh_connection_options)

default_safe_files == << instance_config_path >>

\* next(item for item in items if item['instance'] == instance_name), the
\* generator having reached index i.
RECURSIVE next_item(_, _, _)
next_item(items, instance_name, i) ==
    IF i > Len(items) THEN Raised("StopIteration")
    ELSE IF items[i]["instance"] = instance_name THEN Returned(items[i])
    ELSE next_item(items, instance_name, i + 1)

\* The last matching item instead of the first.
RECURSIVE last_item(_, _, _)
last_item(items, instance_name, i) ==
    IF i < 1 THEN Raised("StopIteration")
    ELSE IF items[i]["instance"] = instance_name THEN Returned(items[i])
    ELSE last_item(items, instance_name, i - 1)

first_matching_item_reversed(items, instance_name) ==
    last_item(items, instance_name, Len(items))

first_matching_item(items, instance_name) ==
    next_item(items, instance_name, 1)

\* A lookup that remembers the names it has found missing.
get_instance_config_cached(instance_name) ==
    IF instance_name \in seen_missing THEN Raised("StopIteration")
    ELSE LET loaded == safe_load_file(instance_config)
         IN  IF loaded.raised # NoException THEN loaded
             ELSE first_matching_item(loaded.value, instance_name)

get_instance_config(instance_name) ==
    LET loaded == safe_load_file(instance_config)
    IN  IF loaded.raised # NoException THEN loaded
        ELSE first_matching_item(loaded.value, instance_name)

\* login_options with the recovery of ansible_connection_options.
login_options_recovering(instance_name) ==
    LET d == [instance |-> instance_name]
        found == get_instance_config(instance_name)
    IN  IF found.raised # NoException THEN Returned(d)
        ELSE Returned(merge_dicts(d, found.value))

login_options(instance_name) ==
    LET d == [instance |-> instance_name]
        found == get_instance_config(instance_name)
    IN  IF found.raised # NoException THEN found
        ELSE Returned(merge_dicts(d, found.value))

\* ansible_connection_options without the except clauses.
ansible_connection_options_unguarded(instance_name) ==
    LET found == get_instance_config(instance_name)
    IN  IF found.raised # NoException THEN found
        ELSE LET d == found.value
             IN  Returned([ansible_user |-> d["user"],
                           ansible_host |-> d["address"],
                           ansible_port |-> d["port"],
                           connection |-> "ssh",
                           ansible_ssh_common_args |->
                               join(" ", ssh_connection_options)])

\* ansible_connection_options adding its keys to the entry it found.
ansible_connection_options_updating(instance_name) ==
    LET found == get_instance_config(instance_name)
    IN  IF found.raised \in {"StopIteration", "IOError"} THEN Returned(EmptyDict)
        ELSE LET d == found.value
             IN  Returned(merge_dicts(d,
                          [ansible_user |-> d["user"],
                           ansible_host |-> d["address"],
                           ansible_port |-> d["port"],
                           connection |-> "ssh",
                           ansible_ssh_common_args |->
                               join(" ", ssh_connection_options)]))

\* ansible_connection_options with user and address exchanged.
ansible_connection_options_swapped(instance_name) ==
    LET found == get_instance_config(instance_name)
    IN  IF found.raised \in {"StopIteration", "IOError"} THEN Returned(EmptyDict)
        ELSE LET d == found.value
             IN  Returned([ansible_user |-> d["address"],
                           ansible_host |-> d["user"],
                           ansible_port |-> d["port"],
                           connection |-> "ssh",
                           ansible_ssh_common_args |->
                               join(" ", ssh_connection_options)])

ansible_connection_options(instance_name) ==
    LET found == get_instance_config(instance_name)
    IN  IF found.raised = "StopIteration" THEN Returned(EmptyDict)
        ELSE IF found.raised = "IOError" THEN Returned(EmptyDict)
        ELSE LET d == found.value
             IN  Returned([ansible_user |-> d["user"],
                           ansible_host |-> d["address"],
                           ansible_port |-> d["port"],
                           connection |-> "ssh",
                           ansible_ssh_common_args |->
                               join(" ", ssh_connection_options)])

\* state.State.change_state(key, value)
change_state(key, value) == [state EXCEPT ![key] = value]

MissingDependency ==
    "Missing Hetzner Cloud driver dependency. Please "
    \o "install via 'molecule[hetznercloud]' or refer to "
    \o "your INSTALL.rst driver documentation file"

MissingToken ==
    "Missing Hetzner Cloud API token. Please expose "
    \o "the HCLOUD_TOKEN environment variable with your "
    \o "account API token value"

\* util.sysexit_with_message(msg): the process ends there, with msg.
sysexit_with_message(msg) == msg

\* What a sanity_checks call leaves: the log, the message the process
\* exited with ("" when the call returns) and the state.
Checked(lines, msg, st) == [log |-> lines, exit_msg |-> msg, state |-> st]

SanityLine == "Sanity checks: '" \o _name \o "'"

\* sanity_checks without the test of state.sanity_checked.
sanity_checks_unguarded ==
    IF ~hcloud_importable
    THEN Checked(Append(log, SanityLine),
                 sysexit_with_message(MissingDependency), state)
    ELSE IF "HCLOUD_TOKEN" \notin environ
    THEN Checked(Append(log, SanityLine),
                 sysexit_with_message(MissingToken), state)
    ELSE Checked(Append(log, SanityLine), "", change_state("sanity_checked", TRUE))

\* sanity_checks recording the outcome of the checks instead of exiting.
sanity_checks_recording ==
    Checked(log, "",
            change_state("sanity_checked",
                         hcloud_importable /\ "HCLOUD_TOKEN" \in environ))

\* sanity_checks without the HCLOUD_TOKEN check.
sanity_checks_without_token ==
    IF state.sanity_checked THEN Checked(log, "", state)
    ELSE IF ~hcloud_importable
    THEN Checked(Append(log, SanityLine),
                 sysexit_with_message(MissingDependency), state)
    ELSE Checked(Append(log, SanityLine), "", change_state("sanity_checked", TRUE))

sanity_checks ==
    IF state.sanity_checked THEN Checked(log, "", state)
    ELSE IF ~hcloud_importable
    THEN Checked(Append(log, SanityLine),
                 sysexit_with_message(MissingDependency), state)
    ELSE IF "HCLOUD_TOKEN" \notin environ
    THEN Checked(Append(log, SanityLine),
                 sysexit_with_message(MissingToken), state)
    ELSE Checked(Append(log, SanityLine), "", change_state("sanity_checked", TRUE))

----------------------------------------------------------------------------
(* The run: calls of the driver, and what happens around it. *)

Event(op, arg, outcome) ==
    [op |-> op, arg |-> arg,
     raised |-> outcome.raised, value |-> outcome.value]

Init ==
    /\ _name = "hetznercloud"
    /\ driver_options \in DriverOptionChoices
    /\ instance_config = [exists |-> FALSE, items |-> << >>]
    /\ state \in [sanity_checked : BOOLEAN]
    /\ hcloud_importable \in BOOLEAN
    /\ environ \in SUBSET {"HCLOUD_TOKEN"}
    /\ log = << >>
    /\ exit_msg = ""
    /\ held_options = << >>
    /\ seen_missing = {}
    /\ last = [op |-> "__init__", arg |-> "",
               raised |-> NoException, value |-> None]

GetName ==
    /\ Running
    /\ last' = Event("name", "", Returned(_name))
    /\ UNCHANGED << _name, driver_options, instance_config, state,
                    hcloud_importable, environ, log, exit_msg, held_options,
                    seen_missing >>

SetName(value) ==
    /\ Running
    /\ _name' = value
    /\ last' = Event("name.setter", value, Returned(None))
    /\ UNCHANGED << driver_options, instance_config, state,
                    hcloud_importable, environ, log, exit_msg, held_options,
                    seen_missing >>

LoginCmdTemplate ==
    /\ Running
    /\ last' = Event("login_cmd_template", "", Returned(login_cmd_template))
    /\ UNCHANGED << _name, driver_options, instance_config, state,
                    hcloud_importable, environ, log, exit_msg, held_options,
                    seen_missing >>

DefaultSafeFiles ==
    /\ Running
    /\ last' = Event("default_safe_files", "", Returned(default_safe_files))
    /\ UNCHANGED << _name, driver_options, instance_config, state,
                    hcloud_importable, environ, log, exit_msg, held_options,
                    seen_missing >>

\* The caller keeps the first list it is given.
DefaultSshConnectionOptions ==
    /\ Running
    /\ last' = Event("default_ssh_connection_options", "",
                     Returned(default_ssh_connection_options))
    /\ held_options' = IF held_options = << >>
                       THEN default_ssh_connection_options
                       ELSE held_options
    /\ UNCHANGED << _name, driver_options, instance_config, state,
                    hcloud_importable, environ, log, exit_msg, seen_missing >>

LoginOptions(instance_name) ==
    /\ Running
    /\ LET r == login_options(instance_name)
       IN  /\ last' = Event("login_options", instance_name, r)
           /\ seen_missing' = IF r.raised # NoException
                              THEN seen_missing \cup {instance_name}
                              ELSE seen_missing
    /\ UNCHANGED << _name, driver_options, instance_config, state,
                    hcloud_importable, environ, log, exit_msg, held_options >>

AnsibleConnectionOptions(instance_name) ==
    /\ Running
    /\ LET r == ansible_connection_options(instance_name)
       IN  /\ last' = Event("ansible_connection_options", instance_name, r)
           /\ seen_missing' = IF r.raised # NoException \/ DOMAIN r.value = {}
                              THEN seen_missing \cup {instance_name}
                              ELSE seen_missing
    /\ UNCHANGED << _name, driver_options, instance_config, state,
                    hcloud_importable, environ, log, exit_msg, held_options >>

SanityChecks ==
    /\ Running
    /\ LET r == sanity_checks
       IN  /\ log' = r.log
           /\ exit_msg' = r.exit_msg
           /\ state' = r.state
           /\ last' = Event("sanity_checks", "",
                            IF r.exit_msg = "" THEN Returned(None)
                            ELSE Raised("SystemExit"))
    /\ UNCHANGED << _name, driver_options, instance_config,
                    hcloud_importable, environ, held_options, seen_missing >>

\* The provisioner adds an instance to the file it dumps.
ProvisionerWrites(entry) ==
    /\ Running
    /\ Len(instance_config.items) < MaxEntries
    /\ instance_config' =
           [exists |-> TRUE, items |-> Append(instance_config.items, entry)]
    /\ last' = Event("provisioner.create", entry.instance, Returned(None))
    /\ UNCHANGED << _name, driver_options, state, hcloud_importable, environ,
                    log, exit_msg, held_options, seen_missing >>

\* The provisioner dumps a file without instances.
ProvisionerClears ==
    /\ Running
    /\ instance_config' = [exists |-> TRUE, items |-> << >>]
    /\ last' = Event("provisioner.destroy", "", Returned(None))
    /\ UNCHANGED << _name, driver_options, state, hcloud_importable, environ,
                    log, exit_msg, held_options, seen_missing >>

\* HCLOUD_TOKEN is exported or unset.
EnvironChanges ==
    /\ Running
    /\ environ' = {"HCLOUD_TOKEN"} \ environ
    /\ last' = Event("os.environ", "HCLOUD_TOKEN", Returned(None))
    /\ UNCHANGED << _name, driver_options, instance_config, state,
                    hcloud_importable, log, exit_msg, held_options,
                    seen_missing >>

\* The hcloud package is installed or removed.
PackageChanges ==
    /\ Running
    /\ hcloud_importable' = ~hcloud_importable
    /\ last' = Event("pip", "hcloud", Returned(None))
    /\ UNCHANGED << _name, driver_options, instance_config, state,
                    environ, log, exit_msg, held_options, seen_missing >>

\* The caller changes the list it was given: it appends an option or
\* removes the first one.
CallerMutatesList ==
    /\ Running
    /\ held_options = get_ssh_connection_options
    /\ \/ held_options' = Append(held_options, "-o ForwardAgent=yes")
       \/ held_options' = Tail(held_options)
    /\ last' = Event("list.mutate", "", Returned(None))
    /\ UNCHANGED << _name, driver_options, instance_config, state,
                    hcloud_importable, environ, log, exit_msg, seen_missing >>

Next ==
    \/ GetName
    \/ \E value \in DriverNames : SetName(value)
    \/ LoginCmdTemplate
    \/ DefaultSafeFiles
    \/ DefaultSshConnectionOptions
    \/ \E instance_name \in InstanceNames : LoginOptions(instance_name)
    \/ \E instance_name \in InstanceNames : AnsibleConnectionOptions(instance_name)
    \/ SanityChecks
    \/ \E entry \in EntryPool : ProvisionerWrites(entry)
    \/ ProvisionerClears
    \/ EnvironChanges
    \/ PackageChanges
    \/ CallerMutatesList

Spec == Init /\ [][Next]_vars

----------------------------------------------------------------------------
(* The properties of the driver. *)

\* The positions of the file's entries for a name, and the first of them.
Matches(n) ==
    { i \in 1..Len(instance_config.items) :
          instance_config.items[i]["instance"] = n }

HasEntry(n) == instance_config.exists /\ Matches(n) # {}

FirstEntry(n) ==
    instance_config.items[CHOOSE i \in Matches(n) : \A j \in Matches(n) : i <= j]

\* The ssh options in force, joined by single spaces.
JoinedOptions ==
    IF driver_options = << >>
    THEN "-o UserKnownHostsFile=/dev/null -o ControlMaster=auto "
         \o "-o ControlPersist=60s -o IdentitiesOnly=no "
         \o "-o StrictHostKeyChecking=no"
    ELSE "-o ControlPath=~/.ansible/cp/%r@%h-%p -o ForwardAgent=yes"

AnsibleKeys ==
    {"ansible_user", "ansible_host", "ansible_port", "connection",
     "ansible_ssh_common_args"}

\* Every event writes "last", so while last.op names a lookup the file is
\* the file that lookup read.
IsLookup(op) == last.op = op

\* C1: ansible_connection_options(name) returns the empty mapping, and does
\* not fail, whenever the file holds no entry for name or is not on disk.
C1_AnsibleOptionsEmptyWhenAbsent ==
    (IsLookup("ansible_connection_options") /\ ~HasEntry(last.arg))
        => (last.raised = NoException /\ last.value = EmptyDict)

C1_Witness ==
    /\ IsLookup("ansible_connection_options")
    /\ instance_config.exists
    /\ Len(instance_config.items) >= 1
    /\ ~HasEntry(last.arg)
    /\ last.value = EmptyDict

\* C2: login_options(name) fails when the file holds no entry for name: the
\* StopIteration of the lookup (the IOError of the missing file) reaches the
\* caller and nothing is returned.
C2_LoginOptionsRaisesWhenAbsent ==
    (IsLookup("login_options") /\ ~HasEntry(last.arg))
        => /\ last.raised =
                  (IF instance_config.exists THEN "StopIteration" ELSE "IOError")
           /\ last.value = None

C2_Witness ==
    /\ IsLookup("login_options")
    /\ instance_config.exists
    /\ Len(instance_config.items) >= 1
    /\ ~HasEntry(last.arg)
    /\ last.raised = "StopIteration"

\* C3: a sanity_checks call made while sanity_checked is true returns
\* without a check, without an exit and without changing anything, also
\* when the SDK or the token is gone.
C3_SanityChecksOnceAfterSuccess ==
    [][(state.sanity_checked /\ last'.op = "sanity_checks")
          => /\ last'.raised = NoException
             /\ UNCHANGED << _name, driver_options, instance_config, state,
                             hcloud_importable, environ, log, exit_msg,
                             held_options, seen_missing >>]_vars

C3_Witness ==
    /\ last.op = "sanity_checks"
    /\ state.sanity_checked
    /\ Len(log) = 1
    /\ ~hcloud_importable
    /\ "HCLOUD_TOKEN" \notin environ
    /\ Running

\* C4: sanity_checked never goes from true to false, and only a
\* sanity_checks call changes it, from false to true.
C4_SanityStateMonotonic ==
    [][/\ state.sanity_checked => state'.sanity_checked
       /\ state' # state => /\ last'.op = "sanity_checks"
                            /\ ~state.sanity_checked
                            /\ state'.sanity_checked]_vars

C4_Witness ==
    /\ state.sanity_checked
    /\ Len(log) = 1
    /\ last.op = "ansible_connection_options"
    /\ _name = "custom"
    /\ ~hcloud_importable

\* C5: a sanity_checks call made while sanity_checked is false sets it only
\* when the SDK is importable and HCLOUD_TOKEN is defined; otherwise the
\* process exits with the message of the missing part, sanity_checked false.
C5_SanityChecksSetsOrExits ==
    [][(~state.sanity_checked /\ last'.op = "sanity_checks")
          => IF hcloud_importable /\ "HCLOUD_TOKEN" \in environ
             THEN state'.sanity_checked /\ exit_msg' = ""
             ELSE /\ ~state'.sanity_checked
                  /\ last'.raised = "SystemExit"
                  /\ exit_msg' = IF ~hcloud_importable
                                 THEN MissingDependency
                                 ELSE MissingToken]_vars

C5_Witness ==
    /\ last.op = "sanity_checks"
    /\ ~state.sanity_checked
    /\ hcloud_importable
    /\ "HCLOUD_TOKEN" \notin environ
    /\ exit_msg = MissingToken

\* C6: for a name with an entry, ansible_connection_options(name) returns
\* the five keys and nothing else: the entry's user, address and port,
\* connection ssh, and the ssh options joined by single spaces.
C6_AnsibleOptionsOfEntry ==
    (IsLookup("ansible_connection_options") /\ HasEntry(last.arg))
        => /\ last.raised = NoException
           /\ DOMAIN last.value = AnsibleKeys
           /\ last.value =
                  [ansible_user |-> FirstEntry(last.arg)["user"],
                   ansible_host |-> FirstEntry(last.arg)["address"],
                   ansible_port |-> FirstEntry(last.arg)["port"],
                   connection |-> "ssh",
                   ansible_ssh_common_args |-> JoinedOptions]

C6_Witness ==
    /\ IsLookup("ansible_connection_options")
    /\ HasEntry(last.arg)
    /\ "identity_file" \in DOMAIN FirstEntry(last.arg)
    /\ last.value["ansible_port"] = 2222
    /\ driver_options = << >>

\* C7: with several entries for one name in the file, both lookups use the
\* fields of the first of them.
C7_FirstMatchWins ==
    Cardinality(Matches(last.arg)) >= 2
        => /\ IsLookup("login_options")
                  => /\ last.raised = NoException
                     /\ last.value["user"] = FirstEntry(last.arg)["user"]
                     /\ last.value["address"] = FirstEntry(last.arg)["address"]
                     /\ last.value["port"] = FirstEntry(last.arg)["port"]
           /\ IsLookup("ansible_connection_options")
                  => /\ last.value["ansible_user"] = FirstEntry(last.arg)["user"]
                     /\ last.value["ansible_host"] = FirstEntry(last.arg)["address"]
                     /\ last.value["ansible_port"] = FirstEntry(last.arg)["port"]

C7_Witness ==
    /\ IsLookup("login_options")
    /\ Cardinality(Matches(last.arg)) >= 2
    /\ instance_config.items[1]["user"] # instance_config.items[2]["user"]
    /\ last.value["user"] = instance_config.items[1]["user"]

\* What a lookup answers from the file as it is now, whatever came before.
FreshAnswer(op, n) ==
    IF op = "login_options"
    THEN IF HasEntry(n)
         THEN Returned([k \in DOMAIN FirstEntry(n) |-> FirstEntry(n)[k]])
         ELSE IF instance_config.exists THEN Raised("StopIteration")
         ELSE Raised("IOError")
    ELSE IF HasEntry(n)
         THEN Returned([ansible_user |-> FirstEntry(n)["user"],
                        ansible_host |-> FirstEntry(n)["address"],
                        ansible_port |-> FirstEntry(n)["port"],
                        connection |-> "ssh",
                        ansible_ssh_common_args |-> JoinedOptions])
         ELSE Returned(EmptyDict)

\* C8: the file is not cached: each lookup answers from the file as it is
\* at the call, also for a name an earlier lookup found missing.
C8_LookupReadsFileAfresh ==
    (IsLookup("login_options") \/ IsLookup("ansible_connection_options"))
        => /\ last.raised = FreshAnswer(last.op, last.arg).raised
           /\ last.value = FreshAnswer(last.op, last.arg).value

C8_Witness ==
    /\ IsLookup("ansible_connection_options")
    /\ last.arg \in seen_missing
    /\ HasEntry(last.arg)
    /\ last.value # EmptyDict

\* C9: default_ssh_connection_options returns the same five options in the
\* same order, whatever happened before the call.
C9_DefaultOptionsFixed ==
    last.op = "default_ssh_connection_options"
        => last.value = << "-o UserKnownHostsFile=/dev/null",
                           "-o ControlMaster=auto",
                           "-o ControlPersist=60s",
                           "-o IdentitiesOnly=no",
                           "-o StrictHostKeyChecking=no" >>

C9_Witness ==
    /\ last.op = "default_ssh_connection_options"
    /\ Len(held_options) = 6
    /\ state.sanity_checked
    /\ Len(log) = 1
    /\ _name = "custom"

\* C10: on one file the two lookups agree: login_options(name) succeeds
\* exactly when ansible_connection_options(name) is not empty, and then
\* carries the name and the same user, address and port.
C10_LookupsAgree ==
    \A n \in InstanceNames :
        LET l == login_options(n)
            a == ansible_connection_options(n)
        IN  /\ a.raised = NoException
            /\ (l.raised = NoException) <=> (a.value # EmptyDict)
            /\ l.raised = NoException
                   => /\ l.value["instance"] = n
                      /\ l.value["user"] = a.value["ansible_user"]
                      /\ l.value["address"] = a.value["ansible_host"]
                      /\ l.value["port"] = a.value["ansible_port"]

C10_Witness ==
    /\ IsLookup("login_options")
    /\ last.raised = NoException
    /\ ansible_connection_options(last.arg).value # EmptyDict
    /\ last.value["user"] = ansible_connection_options(last.arg).value["ansible_user"]
    /\ last.value["port"] = 2222

====
